---- MODULE Spec2Model ----
(***************************************************************************)
(* A model of minigrep (src/src/lib.rs, src/src/main.rs).                  *)
(*                                                                         *)
(* Strings are sequences of Unicode code points.  A string handed over by  *)
(* the operating system (a process argument, the value of an environment   *)
(* variable) may not be valid Unicode: such a string is a sequence that    *)
(* holds the element NotUnicode.                                           *)
(*                                                                         *)
(* Two specifications:                                                     *)
(*   Spec        the whole program, from main's first line to the exit;    *)
(*   SearchSpec  the two search functions applied to a query and a         *)
(*               content, as the tests of lib.rs apply them.               *)
(* Writes to standard output and standard error are taken to succeed.      *)
(***************************************************************************)
EXTENDS Integers, Sequences, FiniteSets

VARIABLES
    \* the process and its environment
    os_args,      \* the arguments the process was started with
    env,          \* the environment variable CASE_INSENSITIVE
    file,         \* what reading the file named FileName gives
    \* main and run
    pc,           \* where the process is
    args,         \* main: let args
    new_result,   \* what Config::new returned to main
    config,       \* main: let config / run's parameter
    contents,     \* run: let contents
    results,      \* run: let results
    run_result,   \* what run returned to main
    stdout,       \* the lines written to standard output
    stderr,       \* the messages written to standard error
    exit_code,    \* the exit code of the process
    \* the search functions on their own
    t_query,      \* the query handed to the search functions
    t_contents,   \* the content handed to the search functions
    t_called,     \* which of the two functions have returned
    t_search,     \* what search returned
    t_insensitive \* what search_case_insensitive returned

prog_vars == <<os_args, env, file, pc, args, new_result, config, contents,
               results, run_result, stdout, stderr, exit_code>>
test_vars == <<t_query, t_contents, t_called, t_search, t_insensitive>>
vars == <<prog_vars, test_vars>>

----------------------------------------------------------------------------
(* Characters *)

LF == 10
CR == 13
UpperA == 65
LowerA == 97
UpperSigma == 931
FinalSigma == 962
SmallSigma == 963
Hyphen == 45
UpperS == 83
LowerF == 102
Digit1 == 49
NotUnicode == -1

\* Strings over the characters of alphabet, of length at most n.
Strings(alphabet, n) == UNION {[1..k -> alphabet] : k \in 0..n}

\* Cased and Case_Ignorable of core::unicode, on the characters used here.
Cased(c) == c \in {UpperA, LowerA, UpperS, LowerF, UpperSigma, FinalSigma, SmallSigma}
Case_Ignorable(c) == c \in {39, 46, 58, 94, 96}

\* conversions::to_lower, on the characters used here: one character each.
to_lower(c) ==
    IF c \in 65..90 THEN c + 32
    ELSE IF c = UpperSigma THEN SmallSigma
    ELSE c

\* case_ignorable_then_cased over s[i], s[i + step], ...: the first character
\* that is not Case_Ignorable exists and is Cased.
RECURSIVE case_ignorable_then_cased(_, _, _)
case_ignorable_then_cased(s, i, step) ==
    IF i < 1 \/ i > Len(s) THEN FALSE
    ELSE IF Case_Ignorable(s[i]) THEN case_ignorable_then_cased(s, i + step, step)
    ELSE Cased(s[i])

\* An upper-case sigma maps to the small sigma, except at the end of a word,
\* where it maps to the final sigma.
map_uppercase_sigma(from, i) ==
    LET is_word_final == /\ case_ignorable_then_cased(from, i - 1, -1)
                         /\ ~case_ignorable_then_cased(from, i + 1, 1)
    IN  IF is_word_final THEN FinalSigma ELSE SmallSigma

\* str::to_lowercase
to_lowercase(s) ==
    [i \in 1..Len(s) |->
        IF s[i] = UpperSigma THEN map_uppercase_sigma(s, i) ELSE to_lower(s[i])]

\* str::contains, with a string as the pattern: the pattern is tried at every
\* offset, from the left.
RECURSIVE contains_from(_, _, _)
contains_from(haystack, needle, i) ==
    IF i + Len(needle) > Len(haystack) THEN FALSE
    ELSE IF SubSeq(haystack, i + 1, i + Len(needle)) = needle THEN TRUE
    ELSE contains_from(haystack, needle, i + 1)

contains(haystack, needle) == contains_from(haystack, needle, 0)

\* One piece of str::lines: the piece up to a line feed loses one carriage
\* return before it.
strip_cr(line) ==
    IF Len(line) > 0 /\ line[Len(line)] = CR
    THEN SubSeq(line, 1, Len(line) - 1)
    ELSE line

\* str::lines: the pieces that end at each line feed, and the rest if it is
\* not empty (the rest keeps a carriage return at its end).
RECURSIVE lines_from(_, _, _)
lines_from(s, i, piece) ==
    IF i > Len(s) THEN (IF piece = <<>> THEN <<>> ELSE <<piece>>)
    ELSE IF s[i] = LF THEN <<strip_cr(piece)>> \o lines_from(s, i + 1, <<>>)
    ELSE lines_from(s, i + 1, Append(piece, s[i]))

\* A slip: the split at every line feed, which keeps the empty piece after a
\* line feed at the end.
lines_keep_last(s) ==
    IF s /= <<>> /\ s[Len(s)] = LF
    THEN Append(lines_from(s, 1, <<>>), <<>>)
    ELSE lines_from(s, 1, <<>>)

lines(s) == lines_from(s, 1, <<>>)

----------------------------------------------------------------------------
(* lib.rs: the search functions *)

\* A slip: the test the other way round, query.contains(line).
RECURSIVE search_loop_swapped(_, _, _, _)
search_loop_swapped(query, ls, i, acc) ==
    IF i > Len(ls) THEN acc
    ELSE search_loop_swapped(query, ls, i + 1,
                             IF contains(query, ls[i]) THEN Append(acc, ls[i]) ELSE acc)

\* The loop of search: for line in contents.lines() { if line.contains(query)
\* { results.push(line) } }
RECURSIVE search_loop(_, _, _, _)
search_loop(query, ls, i, acc) ==
    IF i > Len(ls) THEN acc
    ELSE search_loop(query, ls, i + 1,
                     IF contains(ls[i], query) THEN Append(acc, ls[i]) ELSE acc)

search(query, cont) == search_loop(query, lines(cont), 1, <<>>)

\* A slip: a line is pushed only if the result does not hold it yet.
RECURSIVE insensitive_loop_dedup(_, _, _, _)
insensitive_loop_dedup(query, ls, i, acc) ==
    IF i > Len(ls) THEN acc
    ELSE insensitive_loop_dedup(query, ls, i + 1,
                                IF /\ contains(to_lowercase(ls[i]), query)
                                   /\ \A k \in 1..Len(acc) : acc[k] /= ls[i]
                                THEN Append(acc, ls[i]) ELSE acc)

\* The loop of search_case_insensitive: the line is lowered for the test and
\* pushed as it is.
RECURSIVE insensitive_loop(_, _, _, _)
insensitive_loop(query, ls, i, acc) ==
    IF i > Len(ls) THEN acc
    ELSE insensitive_loop(query, ls, i + 1,
                          IF contains(to_lowercase(ls[i]), query)
                          THEN Append(acc, ls[i]) ELSE acc)

\* A slip: the query is not lowered.
search_case_insensitive_raw(query, cont) ==
    insensitive_loop(query, lines(cont), 1, <<>>)

search_case_insensitive(query, cont) ==
    insensitive_loop(to_lowercase(query), lines(cont), 1, <<>>)

----------------------------------------------------------------------------
(* The process environment *)

MaxExtraArgs == 3
MaxFileLen == 3

IsUnicode(s) == \A i \in 1..Len(s) : s[i] /= NotUnicode

ProgName == <<109>>
DashS == <<Hyphen, UpperS>>
FileName == <<LowerF>>

\* What follows the program name on the command line.
ArgPool == {<<LowerA>>, DashS, FileName, <<NotUnicode>>}
FileChars == {LF, UpperA, LowerA}

NoConfig == [query |-> <<>>, filename |-> <<>>, case_sensitive |-> TRUE]
NoResult == [kind |-> "none", cause |-> "none"]

\* std::env::var: an error when the variable is not set, and when its value is
\* not valid Unicode.
env_var(e) ==
    IF ~e.set THEN [is_err |-> TRUE, err |-> "NotPresent", value |-> <<>>]
    ELSE IF ~IsUnicode(e.value)
         THEN [is_err |-> TRUE, err |-> "NotUnicode", value |-> <<>>]
         ELSE [is_err |-> FALSE, err |-> "none", value |-> e.value]

\* std::fs::read_to_string: the file named FileName is as the variable file
\* says, no other file exists.
read_to_string(filename) ==
    IF filename = FileName THEN file
    ELSE [ok |-> FALSE, contents |-> <<>>, cause |-> "NotFound"]

----------------------------------------------------------------------------
(* lib.rs: Config::new *)

\* A slip: exactly 3 arguments are refused too.
Config_new_strict(a, e) ==
    IF Len(a) <= 3
    THEN [ok |-> FALSE, err |-> "Not enough arguments", config |-> NoConfig]
    ELSE [ok |-> TRUE, err |-> "none",
          config |-> [query |-> a[2], filename |-> a[3],
                      case_sensitive |-> ~(\E i \in 1..Len(a) : a[i] = DashS)]]

Config_new(a, e) ==
    IF Len(a) < 3
    THEN [ok |-> FALSE, err |-> "Not enough arguments", config |-> NoConfig]
    ELSE LET query == a[2]
             filename == a[3]
             case_sensitive ==
                 IF Len(a) > 3
                 THEN ~(\E i \in 1..Len(a) : a[i] = DashS)
                 ELSE env_var(e).is_err
         IN  [ok |-> TRUE, err |-> "none",
              config |-> [query |-> query, filename |-> filename,
                          case_sensitive |-> case_sensitive]]

----------------------------------------------------------------------------
(* main.rs: main, and lib.rs: run *)

Init ==
    /\ os_args \in {<<>>} \cup
           {<<ProgName>> \o rest : rest \in Strings(ArgPool, MaxExtraArgs)}
    /\ env \in {[set |-> FALSE, value |-> <<>>]} \cup
           {[set |-> TRUE, value |-> v] : v \in {<<>>, <<Digit1>>, <<NotUnicode>>}}
    /\ file \in {[ok |-> TRUE, contents |-> c, cause |-> "none"] :
                     c \in Strings(FileChars, MaxFileLen)} \cup
                {[ok |-> FALSE, contents |-> <<>>, cause |-> k] :
                     k \in {"NotFound", "PermissionDenied", "InvalidData"}}
    /\ pc = "main"
    /\ args = <<>>
    /\ new_result = [ok |-> FALSE, err |-> "not called", config |-> NoConfig]
    /\ config = NoConfig
    /\ contents = <<>>
    /\ results = <<>>
    /\ run_result = NoResult
    /\ stdout = <<>>
    /\ stderr = <<>>
    /\ exit_code = -1
    /\ t_query = <<>>
    /\ t_contents = <<>>
    /\ t_called = {}
    /\ t_search = <<>>
    /\ t_insensitive = <<>>

\* main: let args: Vec<String> = env::args().collect();  The iterator panics
\* at an argument that is not valid Unicode: the panic message goes to
\* standard error and the process ends with the code 101.
MainCollectArgs ==
    /\ pc = "main"
    /\ IF \A i \in 1..Len(os_args) : IsUnicode(os_args[i])
       THEN /\ args' = os_args
            /\ pc' = "config"
            /\ UNCHANGED <<stderr, exit_code>>
       ELSE /\ stderr' = Append(stderr, <<"thread 'main' panicked", "">>)
            /\ exit_code' = 101
            /\ pc' = "exited"
            /\ UNCHANGED args
    /\ UNCHANGED <<os_args, env, file, new_result, config, contents, results,
                   run_result, stdout, test_vars>>

\* main: Config::new(&args).unwrap_or_else(|err| { eprintln!(...);
\* process::exit(1) })
MainConfigNew ==
    /\ pc = "config"
    /\ LET r == Config_new(args, env)
       IN  /\ new_result' = r
           /\ IF r.ok
              THEN /\ config' = r.config
                   /\ pc' = "run"
                   /\ UNCHANGED <<stderr, exit_code>>
              ELSE /\ stderr' = Append(stderr,
                                       <<"Problem parsing arguments: ", r.err>>)
                   /\ exit_code' = 1
                   /\ pc' = "exited"
                   /\ UNCHANGED config
    /\ UNCHANGED <<os_args, env, file, args, contents, results, run_result,
                   stdout, test_vars>>

\* A slip: a file that cannot be read counts as an empty one
\* (unwrap_or_default in the place of ?).
RunReadToString_default ==
    /\ pc = "run"
    /\ contents' = read_to_string(config.filename).contents
    /\ pc' = "search"
    /\ UNCHANGED <<os_args, env, file, args, new_result, config, results,
                   run_result, stdout, stderr, exit_code, test_vars>>

\* run: let contents = fs::read_to_string(config.filename)?;
RunReadToString ==
    /\ pc = "run"
    /\ LET r == read_to_string(config.filename)
       IN  IF r.ok
           THEN /\ contents' = r.contents
                /\ pc' = "search"
                /\ UNCHANGED run_result
           ELSE /\ run_result' = [kind |-> "Err", cause |-> r.cause]
                /\ pc' = "returned"
                /\ UNCHANGED contents
    /\ UNCHANGED <<os_args, env, file, args, new_result, config, results,
                   stdout, stderr, exit_code, test_vars>>

\* A slip: search whatever the configuration says.
RunSearch_sensitive ==
    /\ pc = "search"
    /\ results' = search(config.query, contents)
    /\ pc' = "print"
    /\ UNCHANGED <<os_args, env, file, args, new_result, config, contents,
                   run_result, stdout, stderr, exit_code, test_vars>>

\* run: let results = if config.case_sensitive { search(..) } else
\* { search_case_insensitive(..) };
RunSearch ==
    /\ pc = "search"
    /\ results' = IF config.case_sensitive
                  THEN search(config.query, contents)
                  ELSE search_case_insensitive(config.query, contents)
    /\ pc' = "print"
    /\ UNCHANGED <<os_args, env, file, args, new_result, config, contents,
                   run_result, stdout, stderr, exit_code, test_vars>>

\* run: one turn of for line in results { println!("{}", line); }
RunPrintln ==
    /\ pc = "print"
    /\ Len(stdout) < Len(results)
    /\ stdout' = Append(stdout, results[Len(stdout) + 1])
    /\ UNCHANGED <<os_args, env, file, pc, args, new_result, config, contents,
                   results, run_result, stderr, exit_code, test_vars>>

\* run: Ok(()) after the loop
RunReturnOk ==
    /\ pc = "print"
    /\ Len(stdout) = Len(results)
    /\ run_result' = [kind |-> "Ok", cause |-> "none"]
    /\ pc' = "returned"
    /\ UNCHANGED <<os_args, env, file, args, new_result, config, contents,
                   results, stdout, stderr, exit_code, test_vars>>

\* main: if let Err(e) = minigrep::run(config) { eprintln!(...);
\* process::exit(1) }, and the end of main
MainAfterRun ==
    /\ pc = "returned"
    /\ IF run_result.kind = "Err"
       THEN /\ stderr' = Append(stderr, <<"Application error: ", run_result.cause>>)
            /\ exit_code' = 1
       ELSE /\ exit_code' = 0
            /\ UNCHANGED stderr
    /\ pc' = "exited"
    /\ UNCHANGED <<os_args, env, file, args, new_result, config, contents,
                   results, run_result, stdout, test_vars>>

Next ==
    \/ MainCollectArgs
    \/ MainConfigNew
    \/ RunReadToString
    \/ RunSearch
    \/ RunPrintln
    \/ RunReturnOk
    \/ MainAfterRun

Spec == Init /\ [][Next]_vars

----------------------------------------------------------------------------
(* The search functions on their own *)

MaxLen == 4
MaxQuery == 2

ContentChars == {LF, CR, UpperA, LowerA, UpperSigma}
QueryChars == {UpperA, LowerA, UpperSigma}

ProgIdle ==
    /\ os_args = <<>>
    /\ env = [set |-> FALSE, value |-> <<>>]
    /\ file = [ok |-> FALSE, contents |-> <<>>, cause |-> "NotFound"]
    /\ pc = "idle"
    /\ args = <<>>
    /\ new_result = [ok |-> FALSE, err |-> "not called", config |-> NoConfig]
    /\ config = NoConfig
    /\ contents = <<>>
    /\ results = <<>>
    /\ run_result = NoResult
    /\ stdout = <<>>
    /\ stderr = <<>>
    /\ exit_code = -1

SearchInit ==
    /\ t_query \in Strings(QueryChars, MaxQuery)
    /\ t_contents \in Strings(ContentChars, MaxLen)
    /\ t_called = {}
    /\ t_search = <<>>
    /\ t_insensitive = <<>>
    /\ ProgIdle

TestCaseSensitive ==
    /\ "search" \notin t_called
    /\ t_search' = search(t_query, t_contents)
    /\ t_called' = t_called \cup {"search"}
    /\ UNCHANGED <<t_query, t_contents, t_insensitive, prog_vars>>

TestCaseInsensitive ==
    /\ "search_case_insensitive" \notin t_called
    /\ t_insensitive' = search_case_insensitive(t_query, t_contents)
    /\ t_called' = t_called \cup {"search_case_insensitive"}
    /\ UNCHANGED <<t_query, t_contents, t_search, prog_vars>>

SearchNext == TestCaseSensitive \/ TestCaseInsensitive

SearchSpec == SearchInit /\ [][SearchNext]_vars

----------------------------------------------------------------------------
(* What the claims about the search functions are stated with *)

\* q occurs in l: at some offset, every character of q is the character of l.
HasSubstring(l, q) ==
    \E i \in 0..(Len(l) - Len(q)) : \A k \in 1..Len(q) : l[i + k] = q[k]

Range(s) == {s[i] : i \in 1..Len(s)}

\* The positions of the line feeds of a content, and the k-th of them (0 for
\* k = 0).
LineFeeds(c) == {i \in 1..Len(c) : c[i] = LF}
NthLineFeed(c, k) ==
    IF k = 0 THEN 0
    ELSE CHOOSE p \in LineFeeds(c) : Cardinality({q \in LineFeeds(c) : q <= p}) = k

\* The lines of a content: what stands between two line terminators (a line
\* feed, or a carriage return and a line feed), and what follows the last
\* terminator when that is not empty.
LinesOf(c) ==
    LET n == Cardinality(LineFeeds(c))
        last == NthLineFeed(c, n)
        Ended(k) ==
            LET from == NthLineFeed(c, k - 1) + 1
                to == NthLineFeed(c, k) - 1
            IN  IF to >= from /\ c[to] = CR
                THEN SubSeq(c, from, to - 1) ELSE SubSeq(c, from, to)
    IN  [k \in 1..(IF last < Len(c) THEN n + 1 ELSE n) |->
            IF k <= n THEN Ended(k) ELSE SubSeq(c, last + 1, Len(c))]

\* r holds every occurrence, in the order of the content, of the lines it holds.
AllOccurrencesInOrder(r, c) ==
    LET Held(l) == l \in Range(r)
    IN  r = SelectSeq(LinesOf(c), Held)

\* C1: search returns exactly the lines of the content that hold the query as
\* a substring: each returned string is a line of the content and holds the
\* query, and each line of the content that is not returned does not hold it.
C1_SearchExact ==
    "search" \in t_called =>
        /\ \A k \in 1..Len(t_search) :
               /\ t_search[k] \in Range(LinesOf(t_contents))
               /\ HasSubstring(t_search[k], t_query)
        /\ \A l \in Range(LinesOf(t_contents)) :
               l \notin Range(t_search) => ~HasSubstring(l, t_query)

\* search has returned some lines and left out a line that holds the query in
\* another case.
C1_Witness ==
    /\ "search" \in t_called
    /\ t_search /= <<>>
    /\ t_query /= <<>>
    /\ \E l \in Range(LinesOf(t_contents)) :
           /\ l \notin Range(t_search)
           /\ HasSubstring(to_lowercase(l), to_lowercase(t_query))

\* C2: search_case_insensitive returns exactly the lines of the content whose
\* lowercased form holds the lowercased query, each as it stands in the
\* content, never lowered.
C2_InsensitiveExact ==
    "search_case_insensitive" \in t_called =>
        /\ \A k \in 1..Len(t_insensitive) :
               /\ t_insensitive[k] \in Range(LinesOf(t_contents))
               /\ HasSubstring(to_lowercase(t_insensitive[k]),
                               to_lowercase(t_query))
        /\ \A l \in Range(LinesOf(t_contents)) :
               l \notin Range(t_insensitive) =>
                   ~HasSubstring(to_lowercase(l), to_lowercase(t_query))

\* search_case_insensitive has returned a line that is not its own lowercased
\* form and does not hold the query as it is written, and has left a line out.
C2_Witness ==
    /\ "search_case_insensitive" \in t_called
    /\ \E k \in 1..Len(t_insensitive) :
           /\ t_insensitive[k] /= to_lowercase(t_insensitive[k])
           /\ ~HasSubstring(t_insensitive[k], t_query)
    /\ \E l \in Range(LinesOf(t_contents)) : l \notin Range(t_insensitive)

\* C3: every line search returns, search_case_insensitive returns too, for the
\* same query and content.
C3_InsensitiveSuperset ==
    t_called = {"search", "search_case_insensitive"} =>
        \A k \in 1..Len(t_search) : t_search[k] \in Range(t_insensitive)

\* C8: both results are subsequences of the lines of the content: the lines
\* keep the order of the content, a returned line is returned as often as it
\* occurs, and a last line that matches is returned whatever matched before.
C8_OrderKept ==
    /\ "search" \in t_called =>
           /\ AllOccurrencesInOrder(t_search, t_contents)
           /\ LET ls == LinesOf(t_contents)
              IN  (ls /= <<>> /\ HasSubstring(ls[Len(ls)], t_query)) =>
                      (t_search /= <<>> /\ t_search[Len(t_search)] = ls[Len(ls)])
    /\ "search_case_insensitive" \in t_called =>
           /\ AllOccurrencesInOrder(t_insensitive, t_contents)
           /\ LET ls == LinesOf(t_contents)
              IN  (ls /= <<>> /\ HasSubstring(to_lowercase(ls[Len(ls)]),
                                             to_lowercase(t_query))) =>
                      (/\ t_insensitive /= <<>>
                       /\ t_insensitive[Len(t_insensitive)] = ls[Len(ls)])

\* Both functions have returned a line twice, the second time from the last
\* line of the content.
C8_Witness ==
    /\ t_called = {"search", "search_case_insensitive"}
    /\ t_query /= <<>>
    /\ Len(t_search) = 2
    /\ t_search[1] = t_search[2]
    /\ t_insensitive = t_search
    /\ t_contents[Len(t_contents)] /= LF

\* C9: with the empty query both functions return every line of the content,
\* in order; a terminator at the end of the content gives no empty last line,
\* and the empty content gives no line.
C9_EmptyQuery ==
    (t_query = <<>> /\ t_called = {"search", "search_case_insensitive"}) =>
        /\ t_search = LinesOf(t_contents)
        /\ t_insensitive = LinesOf(t_contents)
        /\ Len(t_search) = Cardinality(LineFeeds(t_contents))
              + (IF t_contents /= <<>> /\ t_contents[Len(t_contents)] /= LF
                 THEN 1 ELSE 0)
        /\ \A k \in 1..Len(t_search) : LF \notin Range(t_search[k])
        /\ t_contents = <<>> => t_search = <<>>

\* The empty query on a content of several lines, one of them empty, that
\* ends with a terminator.
C9_Witness ==
    /\ t_query = <<>>
    /\ t_called = {"search", "search_case_insensitive"}
    /\ Len(t_contents) > 0
    /\ t_contents[Len(t_contents)] = LF
    /\ Len(t_search) >= 2
    /\ <<>> \in Range(t_search)
    /\ \E k \in 1..Len(t_search) : t_search[k] /= <<>>

----------------------------------------------------------------------------
(* What the claims about Config::new, run and main are stated with *)

Called == new_result.err /= "not called"

IsPrefix(p, s) == Len(p) <= Len(s) /\ \A i \in 1..Len(p) : p[i] = s[i]

\* The lines of a content that match a query, with or without regard to case.
Matching(query, c, case_sensitive) ==
    LET Match(l) == IF case_sensitive
                    THEN HasSubstring(l, query)
                    ELSE HasSubstring(to_lowercase(l), to_lowercase(query))
    IN  SelectSeq(LinesOf(c), Match)

\* C4: Config::new fails, with the message "Not enough arguments", exactly
\* when it is given fewer than 3 arguments; given 3 or more it succeeds with
\* the second as the query and the third as the file name.
C4_ConfigNew ==
    Called =>
        /\ ~new_result.ok <=> Len(args) < 3
        /\ ~new_result.ok => new_result.err = "Not enough arguments"
        /\ new_result.ok =>
               /\ new_result.config.query = args[2]
               /\ new_result.config.filename = args[3]

\* Config::new has failed on the program name and a query.
C4_Witness ==
    /\ Called
    /\ Len(args) = 2
    /\ ~new_result.ok
    /\ stderr = <<<<"Problem parsing arguments: ", "Not enough arguments">>>>

\* C5: with more than 3 arguments the search is case-insensitive exactly when
\* one of them is "-S"; with exactly 3 it is case-sensitive exactly when the
\* variable CASE_INSENSITIVE is not set, whatever its value when it is set.
C5_CaseSensitivity ==
    new_result.ok =>
        /\ Len(args) > 3 =>
               (~new_result.config.case_sensitive <=>
                    \E i \in 1..Len(args) : args[i] = DashS)
        /\ Len(args) = 3 => (new_result.config.case_sensitive <=> ~env.set)

\* C6: when the file cannot be read, run returns the error with its cause,
\* nothing is ever written to standard output, and the process writes
\* "Application error: <cause>" to standard error and exits with the code 1;
\* run never fails after a line was printed.
C6_ReadFailure ==
    new_result.ok =>
        LET r == read_to_string(config.filename)
        IN  /\ ~r.ok => /\ pc \in {"run", "returned", "exited"}
                        /\ stdout = <<>>
                        /\ run_result.kind /= "Ok"
            /\ (~r.ok /\ pc \in {"returned", "exited"}) =>
                   run_result = [kind |-> "Err", cause |-> r.cause]
            /\ (~r.ok /\ pc = "exited") =>
                   /\ stderr = <<<<"Application error: ", r.cause>>>>
                   /\ exit_code = 1
            /\ run_result.kind = "Err" => (~r.ok /\ stdout = <<>>)

\* The process has exited on a file that exists and cannot be read.
C6_Witness ==
    /\ pc = "exited"
    /\ run_result = [kind |-> "Err", cause |-> "PermissionDenied"]
    /\ config.filename = FileName
    /\ exit_code = 1

\* C7: the process ends with the code 0, after the arguments were parsed, the
\* file read and the matching lines printed, with nothing on standard error;
\* or with the code 1, after Config::new failed (its message on standard
\* error, no read attempted, nothing on standard output) or after run failed
\* (its message on standard error); one message on a failure, none on success.
C7_Outcomes ==
    pc = "exited" =>
        \/ /\ exit_code = 0
           /\ new_result.ok
           /\ run_result.kind = "Ok"
           /\ stdout = results
           /\ stderr = <<>>
        \/ /\ exit_code = 1
           /\ Called
           /\ ~new_result.ok
           /\ run_result.kind = "none"
           /\ stdout = <<>>
           /\ stderr = <<<<"Problem parsing arguments: ", new_result.err>>>>
        \/ /\ exit_code = 1
           /\ new_result.ok
           /\ run_result.kind = "Err"
           /\ stderr = <<<<"Application error: ", run_result.cause>>>>

\* C10: when the file is read, standard output is the lines of the file that
\* match the query, with or without regard to case as the configuration says,
\* in the order of the file; nothing is written before the file was read.
C10_Output ==
    /\ stdout /= <<>> => /\ pc \in {"print", "returned", "exited"}
                         /\ new_result.ok
                         /\ read_to_string(config.filename).ok
    /\ (new_result.ok /\ read_to_string(config.filename).ok) =>
           LET expected == Matching(config.query,
                                    read_to_string(config.filename).contents,
                                    config.case_sensitive)
           IN  /\ IsPrefix(stdout, expected)
               /\ pc \in {"returned", "exited"} =>
                      (stdout = expected /\ run_result.kind = "Ok")

\* A case-insensitive run has printed two lines, one of which does not hold
\* the query as it is written.
C10_Witness ==
    /\ pc = "exited"
    /\ exit_code = 0
    /\ ~config.case_sensitive
    /\ Len(stdout) = 2
    /\ \E k \in 1..Len(stdout) : ~HasSubstring(stdout[k], config.query)

====
